---- MODULE Spec2Model ----
(***************************************************************************)
(* Verification model of bioshape-lab/neuralgeom.                          *)
(*                                                                         *)
(* The repository holds five independent programs; each is a state        *)
(* machine of its own with its own specification:                          *)
(*   SpecMain   neuralgeom/main.py run as a script, with the import of     *)
(*              neuralgeom/default_config.py as its first step             *)
(*   SpecVAE    the class neuralgeom/models/fc_vae.py:VAE and its methods  *)
(*   SpecExp    saliency/experiment.py:Experiment.train_and_evaluate       *)
(*   SpecGrid   the same program on the inputs that exercise grid_scale:   *)
(*              several units and ring masks, a start in the grid window   *)
(*   SpecPlace  abn/datasets/synthetic.py:load_place_cells                 *)
(*   SpecLoad   abn/datasets/synthetic.py:load_images, load_projections,   *)
(*              load_points                                                *)
(* A program that is not running under a specification rests in its "off"  *)
(* state. Spec is the union of the five.                                   *)
(***************************************************************************)
EXTENDS Integers, Sequences, FiniteSets, TLC

\* ---------------------------------------------------------------- bounds
\* longest dataset_name list tried in default_config
MaxNames == 2

\* largest data_dim, latent_dim and batch_size a VAE is tried with
MaxDim == 2

\* tensor entries, input identities and noise draws range over 0..MaxVal
MaxVal == 1

\* largest num_steps_train of a training run
MaxTrainSteps == 2

\* parameter entries range over -MaxWeight..MaxWeight
MaxWeight == 2

\* largest steps_per_logging, steps_per_large_logging, steps_per_integration
MaxPeriod == 2

\* largest config.model.num_neurons: len(weights) in grid_scale, the units
\* of encoder.v that are scored
MaxUnits == 2

\* largest number of ring masks the scorer of grid_scale is built with
MaxMasks == 2

\* largest n_times and n_cells load_place_cells is called with
MaxTimes == 7

MaxCells == 6

\* largest n_angles, n_scalars and img_size a loader is called with
MaxAngles == 3

MaxScalars == 3

MaxImgSize == 2

VARIABLES
    \* ---- main.py / default_config.py
    dataset_name,     \* default_config.dataset_name, the list being validated
    cfg_i,            \* position of the validation loop in dataset_name (1-based)
    launcher_attrs,   \* names bound in default_config beyond those of the file
    sweep,            \* config keys a sweep controller overrides in wandb.config
    pc,               \* the statement of the script that runs next
    exc,              \* the exception the script died of, NoExc while it lives
    model,            \* main.py's `model`: the class constructed, or "unbound"
    trace,            \* the calls the script has made, in order
    \* ---- fc_vae.VAE
    vae,              \* the constructed object: its attributes
    vpc,              \* where the caller of the VAE is: idle, or inside forward
    x,                \* forward's argument
    posterior_params, \* forward's local posterior_params
    z,                \* forward's local z
    x_mu,             \* forward's local x_mu
    order,            \* the methods the running forward call has invoked so far
    ret,              \* what the last finished call returned or raised
    \* ---- Experiment.train_and_evaluate
    train,            \* config.train: the periods and the number of steps
    starting_step,    \* self.starting_step
    epc,              \* where train_and_evaluate is: loop, returned, raised
    step,             \* the step the for loop runs next
    lr,               \* the local lr: "unbound" until an assignment binds it
    group_lr,         \* param_group["lr"] of the optimizer's groups
    train_metrics,    \* the steps whose metrics wait in train_metrics
    errors,           \* the steps whose mean_err was appended to errors
    scale_vector,     \* the step that last wrote train_dataset.scale_vector
    eexc,             \* the exception train_and_evaluate raised
    freeze_decoder,   \* config.model.freeze_decoder
    ckpt_step,        \* ckpt["step"] of the checkpoint at pretrain_path, 0: none
    requires_grad,    \* requires_grad of every parameter of the model
    optimizer,        \* self.optimizer: its type and the parameters it holds
    param_data,       \* the value (.data) of every parameter of the model
    events,           \* the calls of the train step that ran last, in order
    observed,         \* the parameters as the logging blocks of that step saw them
    batches,          \* how often next(self.train_iter) was called
    executed,         \* the steps whose body was entered, in order
    logged,           \* the averaged train metrics passed to wandb.log
    grid_call,        \* the grid_scale call of the train step that ran last
    num_neurons,      \* config.model.num_neurons: the rows of encoder.v
    num_masks,        \* len(ends): the ring masks grid_scale gives its scorer
    \* ---- load_place_cells
    n_times,          \* argument n_times
    n_cells,          \* argument n_cells
    rep,              \* turns of the outer loop that are finished
    i_cell,           \* the inner loop's next i_cell
    place_cells,      \* the rows appended so far
    labels,           \* the labels appended so far
    ppc,              \* where load_place_cells is: loop, returned, raised
    pexc,             \* the exception load_place_cells raised
    \* ---- load_images, load_projections, load_points
    loader,           \* the function that was called
    n_scalars,        \* argument n_scalars
    n_angles,         \* argument n_angles
    img_size,         \* argument img_size (the image loaders)
    i_angle,          \* the outer loop's i_angle
    i_scalar,         \* the inner loop's next i_scalar
    observations,     \* the list images, or points
    angles,           \* the list angles
    scalars,          \* the list scalars
    lpc,              \* where the loader is: loop, returned
    lret              \* what the loader returned

mainVars == <<dataset_name, cfg_i, launcher_attrs, sweep, pc, exc, model, trace>>

vaeVars == <<vae, vpc, x, posterior_params, z, x_mu, order, ret>>

expVars == <<train, starting_step, epc, step, lr, group_lr, train_metrics, errors,
             scale_vector, eexc, freeze_decoder, ckpt_step, requires_grad,
             optimizer, param_data, events, observed, batches, executed, logged,
             grid_call, num_neurons, num_masks>>

placeVars == <<n_times, n_cells, rep, i_cell, place_cells, labels, ppc, pexc>>

loadVars == <<loader, n_scalars, n_angles, img_size, i_angle, i_scalar,
              observations, angles, scalars, lpc, lret>>

vars == <<mainVars, vaeVars, expVars, placeVars, loadVars>>

\* ------------------------------------------------------------ exceptions
NoExc == [type |-> "none", arg |-> "", at |-> ""]

Exc(type, arg, at) == [type |-> type, arg |-> arg, at |-> at]

\* ====================================================================
\* neuralgeom/default_config.py and neuralgeom/main.py
\* ====================================================================

\* the names the validation of default_config accepts
RecognizedDatasets_Short ==
    {"s1_synthetic", "s2_synthetic", "t2_synthetic", "experimental"}

RecognizedDatasets ==
    {"s1_synthetic", "s2_synthetic", "t2_synthetic", "experimental", "grid_cells"}

\* entries a launcher may put in the dataset_name list
DatasetInputs ==
    {"s1_synthetic", "s2_synthetic", "t2_synthetic", "experimental", "grid_cells",
     "s3_synthetic"}

\* default_config.posterior_type: a dict from dataset name to posterior name
posterior_type ==
    [d \in {"experimental", "s1_synthetic", "s2_synthetic", "t2_synthetic",
            "grid_cells"} |->
        CASE d = "experimental" -> "hyperspherical"
          [] d = "s1_synthetic" -> "hyperspherical"
          [] d = "s2_synthetic" -> "hyperspherical"
          [] d = "t2_synthetic" -> "toroidal"
          [] d = "grid_cells" -> "toroidal"]

\* module-level names default_config.py binds
ConfigAttrs ==
    {"api_key", "work_dir", "configs_dir", "trained_models_dir", "ray_sweep_dir",
     "curvature_profiles_dir", "device", "project", "trained_model_path",
     "manifold_dim", "latent_dim", "posterior_type", "distortion_func",
     "n_wiggles", "radius", "major_radius", "minor_radius", "synthetic_rotation",
     "dataset_name", "expt_id", "timestep_microsec", "smooth", "select_gain_1",
     "n_times", "embedding_dim", "distortion_amp", "noise_var", "grid_scale",
     "arena_dims", "n_cells", "grid_orientation_mean", "grid_orientation_std",
     "field_width", "resolution", "gen_likelihood_type", "scheduler",
     "log_interval", "checkpt_interval", "n_epochs", "sftbeta", "alpha", "beta",
     "gamma", "lr_min", "lr_max", "batch_size", "encoder_width", "encoder_depth",
     "decoder_width", "decoder_depth", "num_samples", "sweep_metric"}

\* the attributes of default_config main.py reads for wandb.init, in order
MainReads ==
    <<"project", "run_name", "device", "log_interval", "checkpt_interval",
      "dataset_name", "expt_id", "timestep_microsec", "smooth", "distortion_func",
      "n_times", "radius", "major_radius", "minor_radius", "distortion_amp",
      "n_wiggles", "embedding_dim", "synthetic_rotation", "noise_var",
      "batch_size", "scheduler", "n_epochs", "learning_rate", "beta", "sftbeta",
      "encoder_width", "encoder_depth", "decoder_depth", "decoder_width",
      "latent_dim", "posterior_type", "manifold_dim", "gen_likelihood_type",
      "results_prefix", "gamma">>

\* names main.py reads that default_config.py does not bind; a launcher that
\* wants the script to pass wandb.init has to add them to default_config
LauncherNames == {"run_name", "learning_rate", "results_prefix"}

\* posterior names a sweep may put in wandb.config ("<none>": no override)
SweepPosteriors == {"<none>", "gaussian", "hyperspherical", "toroidal", "vmf"}

\* dataset names a sweep may put in wandb.config ("<none>": no override)
SweepDatasets == {"<none>", "s1_synthetic", "experimental"}

\* A Python value of wandb.config: a str, or the container default_config holds
PyStr(s) == [kind |-> "str", s |-> s]

PyContainer(kind) == [kind |-> kind, s |-> ""]

\* config.posterior_type: wandb.init is given default_config.posterior_type,
\* the whole dict
config_posterior_type ==
    IF sweep.posterior = "<none>" THEN PyContainer("dict") ELSE PyStr(sweep.posterior)

\* config.dataset_name: wandb.init is given default_config.dataset_name, the list
config_dataset_name ==
    IF sweep.dataset = "<none>" THEN PyContainer("list") ELSE PyStr(sweep.dataset)

\* Python's `value in (s1, s2, ...)` for a tuple of str
PyInStrs(value, strs) == value.kind = "str" /\ value.s \in strs

\* an uncaught exception ends the script: main.py has no try statement
Uncaught_Swallowed(e) ==
    /\ exc' = e
    /\ pc' = CASE pc = "train_test_model" -> "plot_and_log"
               [] pc = "plot_and_log" -> "evaluate_curvature"
               [] pc = "evaluate_curvature" -> "wandb_finish"
               [] OTHER -> "exited"

Uncaught(e) ==
    /\ exc' = e
    /\ pc' = "exited"

Goto(next) ==
    /\ pc' = next
    /\ exc' = exc

\* default_config.py, one turn of `for one_dataset_name in dataset_name`
CheckDatasetName ==
    /\ pc = "import_default_config"
    /\ cfg_i <= Len(dataset_name)
    /\ IF dataset_name[cfg_i] \notin RecognizedDatasets
       THEN /\ Uncaught(Exc("ValueError", dataset_name[cfg_i], "default_config"))
            /\ cfg_i' = cfg_i
       ELSE /\ Goto("import_default_config")
            /\ cfg_i' = cfg_i + 1
    /\ UNCHANGED <<dataset_name, launcher_attrs, sweep, model, trace, vaeVars, expVars, placeVars, loadVars>>

\* default_config.py, after the loop: the rest of the module binds constants
ImportDone ==
    /\ pc = "import_default_config"
    /\ cfg_i > Len(dataset_name)
    /\ Goto("wandb_init")
    /\ UNCHANGED <<dataset_name, cfg_i, launcher_attrs, sweep, model, trace, vaeVars, expVars, placeVars, loadVars>>

\* the first attribute main.py reads that default_config does not have
MissingReads == {k \in 1..Len(MainReads) :
                    MainReads[k] \notin (ConfigAttrs \cup launcher_attrs)}

FirstMissing == MainReads[CHOOSE k \in MissingReads : \A j \in MissingReads : k <= j]

\* main.py, wandb.init(...): its arguments are evaluated first
WandbInit ==
    /\ pc = "wandb_init"
    /\ IF MissingReads # {}
       THEN /\ Uncaught(Exc("AttributeError", FirstMissing, "wandb_init"))
            /\ trace' = trace
       ELSE /\ Goto("load_data")
            /\ trace' = Append(trace, "wandb.init")
    /\ UNCHANGED <<dataset_name, cfg_i, launcher_attrs, sweep, model, vaeVars, expVars, placeVars, loadVars>>

\* main.py, datasets.utils.load(config), called twice; the loader may raise
LoadData ==
    /\ pc = "load_data"
    /\ \E ok \in BOOLEAN :
        IF ok
        THEN /\ Goto("train_test_model")
             /\ trace' = trace \o <<"load", "load">>
        ELSE /\ Uncaught(Exc("Exception", "load", "load_data"))
             /\ trace' = trace
    /\ UNCHANGED <<dataset_name, cfg_i, launcher_attrs, sweep, model, vaeVars, expVars, placeVars, loadVars>>

\* train_test_model, the if/elif on config.posterior_type: the class chosen
SelectModel(ptype) ==
    IF PyInStrs(ptype, {"gaussian", "hyperspherical"}) THEN "NeuralVAE"
    ELSE IF ptype = PyStr("toroidal") THEN "ToroidalVAE"
    ELSE "unbound"

\* main.py, train_test_model(): dispatch, optimizer, train.train_test
train_test_model ==
    /\ pc = "train_test_model"
    /\ LET m == SelectModel(config_posterior_type) IN
        /\ model' = m
        /\ IF m = "unbound"
           THEN \* model.parameters() reads a local that was never bound
                /\ Uncaught(Exc("UnboundLocalError", "model", "train_test_model"))
                /\ trace' = trace
           ELSE \E ok \in BOOLEAN :
                IF ok
                THEN /\ Goto("plot_and_log")
                     /\ trace' = trace \o <<m, "optimizer", "train">>
                ELSE /\ Uncaught(Exc("Exception", "train", "train_test_model"))
                     /\ trace' = trace \o <<m, "optimizer">>
    /\ UNCHANGED <<dataset_name, cfg_i, launcher_attrs, sweep, vaeVars, expVars, placeVars, loadVars>>

\* main.py, plot_and_log(): three plots, torch.save, wandb.log
plot_and_log ==
    /\ pc = "plot_and_log"
    /\ \E ok \in BOOLEAN :
        IF ok
        THEN /\ Goto("evaluate_curvature")
             /\ trace' = trace \o <<"plot", "save", "log:figs">>
        ELSE /\ Uncaught(Exc("Exception", "plot", "plot_and_log"))
             /\ trace' = trace
    /\ UNCHANGED <<dataset_name, cfg_i, launcher_attrs, sweep, model, vaeVars, expVars, placeVars, loadVars>>

\* the tuple without its first name
SyntheticDatasets_NoCircle == {"s2_synthetic", "t2_synthetic"}

\* evaluate_curvature: the tuple both of its `if`s test config.dataset_name in
SyntheticDatasets == {"s1_synthetic", "s2_synthetic", "t2_synthetic"}

\* main.py, evaluate_curvature(model)
evaluate_curvature ==
    /\ pc = "evaluate_curvature"
    /\ LET synthetic == PyInStrs(config_dataset_name, SyntheticDatasets)
           true_part == IF synthetic
                        THEN <<"curvature_true", "log:fig_curv_norms_true">>
                        ELSE <<>>
           error_part == IF synthetic
                         THEN <<"norm_val:max", "log:curvature_error">>
                         ELSE <<"norm_val:None">>
       IN \E ok \in BOOLEAN :
            IF ok
            THEN /\ Goto("wandb_finish")
                 /\ trace' = trace \o true_part \o <<"curvature_learned">>
                                   \o error_part \o <<"log:fig_curv_norms_learned">>
            ELSE /\ Uncaught(Exc("Exception", "curvature", "evaluate_curvature"))
                 /\ trace' = trace \o true_part
    /\ UNCHANGED <<dataset_name, cfg_i, launcher_attrs, sweep, model, vaeVars, expVars, placeVars, loadVars>>

\* main.py, wandb.finish(): the last statement of the script
WandbFinish ==
    /\ pc = "wandb_finish"
    /\ Goto("exited")
    /\ trace' = Append(trace, "wandb.finish")
    /\ UNCHANGED <<dataset_name, cfg_i, launcher_attrs, sweep, model, vaeVars, expVars, placeVars, loadVars>>

\* ====================================================================
\* neuralgeom/models/fc_vae.py: class VAE
\* ====================================================================

\* A tensor: its shape [rows, columns], the number v every entry is computed
\* from, the elementwise function fn applied to v ("id": v itself,
\* "exp_half": exp(0.5 * v), "softplus_plus_1": softplus(v) + 1) and the
\* identity of the input batch it was computed from.
Tensor(shape, v, fn, of) == [shape |-> shape, v |-> v, fn |-> fn, of |-> of]

NoTensor == Tensor(<<0, 0>>, 0, "none", -1)

NoParams == [mu |-> NoTensor, second |-> NoTensor]

NoDist == [family |-> "none", loc |-> NoTensor, scale |-> NoTensor, dim |-> 0]

NoSample == [shape |-> <<0, 0>>, q |-> NoDist, eps |-> 0]

NoOutput == [shape |-> <<0, 0>>, of_z |-> NoSample]

NoRet == [method |-> "none", status |-> "none", exc |-> NoExc,
          params |-> NoParams, z |-> NoSample, q_z |-> NoDist, p_z |-> NoDist,
          x_mu |-> NoOutput]

NoVAE == [posterior_type |-> "", data_dim |-> 0, latent_dim |-> 0,
          fc_z_mu |-> 0, fc_z_logvar |-> 0]

Vals == 0..MaxVal

\* posterior_type arguments a caller constructs a VAE with
PosteriorInputs == {"gaussian", "hyperspherical", "toroidal", "vmf"}

\* torch.distributions.normal.Normal(loc, scale)
Normal(loc, scale) == [family |-> "Normal", loc |-> loc, scale |-> scale, dim |-> 0]

\* hyperspherical_vae.distributions.VonMisesFisher(loc, scale)
VonMisesFisher(loc, scale) ==
    [family |-> "VonMisesFisher", loc |-> loc, scale |-> scale, dim |-> 0]

\* hyperspherical_vae.distributions.HypersphericalUniform(dim)
HypersphericalUniform(dim) ==
    [family |-> "HypersphericalUniform", loc |-> NoTensor, scale |-> NoTensor,
     dim |-> dim]

\* VAE.__init__: the attributes of the new object. fc_z_mu and fc_z_logvar hold
\* the out_features of the layer, 0 when __init__ does not create the attribute.
\* __init__ has no else branch and raises for no posterior_type.
VAE_init(data_dim, latent_dim, ptype) ==
    [posterior_type |-> ptype, data_dim |-> data_dim, latent_dim |-> latent_dim,
     fc_z_mu |-> IF ptype \in {"gaussian", "hyperspherical"} THEN latent_dim ELSE 0,
     fc_z_logvar |-> CASE ptype = "gaussian" -> latent_dim
                       [] ptype = "hyperspherical" -> 1
                       [] OTHER -> 0]

\* VAE.encode(x): every outcome the call can have. The entries of the output
\* depend on the weights, which training changes: any value of Vals.
encode(self, input) ==
    IF input.shape[2] # self.data_dim
    THEN {[exc |-> Exc("RuntimeError", "shapes", "encode"), params |-> NoParams]}
    ELSE IF self.posterior_type = "gaussian"
    THEN {[exc |-> NoExc,
           params |-> [mu |-> Tensor(<<input.shape[1], self.fc_z_mu>>, m, "id", input.of),
                       second |-> Tensor(<<input.shape[1], self.fc_z_logvar>>, s, "id",
                                         input.of)]]
          : m \in Vals, s \in Vals}
    ELSE IF self.posterior_type = "hyperspherical"
    THEN {[exc |-> NoExc,
           params |-> [mu |-> Tensor(<<input.shape[1], self.fc_z_mu>>, m, "id", input.of),
                       second |-> Tensor(<<input.shape[1], self.fc_z_logvar>>, s,
                                         "softplus_plus_1", input.of)]]
          : m \in Vals, s \in Vals}
    ELSE \* `return posterior_params` reads a local that was never bound
         {[exc |-> Exc("UnboundLocalError", "posterior_params", "encode"),
           params |-> NoParams]}

\* torch.exp(0.5 * t)
ExpHalf(t) == [t EXCEPT !.fn = "exp_half"]

\* torch.ones_like(t)
OnesLike(t) == Tensor(t.shape, 1, "id", t.of)

\* q_z.rsample(): a sample of the shape of loc, drawn with noise eps
rsample(q, eps) == [shape |-> q.loc.shape, q |-> q, eps |-> eps]

\* VAE.reparameterize(posterior_params): every outcome the call can have
reparameterize_All(self, params) ==
    LET q == IF self.posterior_type = "gaussian"
             THEN Normal(params.mu, ExpHalf(params.second))
             ELSE VonMisesFisher(params.mu, params.second)
        p == IF self.posterior_type = "gaussian"
             THEN Normal(OnesLike(params.mu), OnesLike(ExpHalf(params.second)))
             ELSE HypersphericalUniform(self.latent_dim - 1)
    IN {[exc |-> NoExc, z |-> rsample(q, e), q_z |-> q, p_z |-> p] : e \in Vals}

reparameterize(self, params) ==
    IF self.posterior_type = "gaussian"
    THEN LET z_std == ExpHalf(params.second)
             p == Normal(OnesLike(params.mu), OnesLike(z_std))
             q == Normal(params.mu, z_std)
         IN {[exc |-> NoExc, z |-> rsample(q, e), q_z |-> q, p_z |-> p] : e \in Vals}
    ELSE IF self.posterior_type = "hyperspherical"
    THEN LET q == VonMisesFisher(params.mu, params.second)
             p == HypersphericalUniform(self.latent_dim - 1)
         IN {[exc |-> NoExc, z |-> rsample(q, e), q_z |-> q, p_z |-> p] : e \in Vals}
    ELSE \* `q_z.rsample()` reads a local that was never bound
         {[exc |-> Exc("UnboundLocalError", "q_z", "reparameterize"),
           z |-> NoSample, q_z |-> NoDist, p_z |-> NoDist]}

\* VAE.decode(z)
decode(self, latent) ==
    IF latent.shape[2] # self.latent_dim
    THEN [exc |-> Exc("RuntimeError", "shapes", "decode"), x_mu |-> NoOutput]
    ELSE [exc |-> NoExc,
          x_mu |-> [shape |-> <<latent.shape[1], self.data_dim>>, of_z |-> latent]]

\* ---- the callers of a VAE: construction, forward step by step, single calls

Raised(method, e) == [NoRet EXCEPT !.method = method, !.status = "raised", !.exc = e]

\* batches a caller passes: [batch_size, data_dim], as encode documents
BatchInputs(self) ==
    {Tensor(<<b, self.data_dim>>, 0, "id", id) : b \in 1..MaxDim, id \in Vals}

\* posterior parameters a caller passes to reparameterize: of the shapes encode
\* gives for the object's family, (mu, logvar) for a family encode does not know
ParamInputs(self) ==
    {[mu |-> Tensor(<<b, self.latent_dim>>, m, "id", 0),
      second |-> IF self.posterior_type = "hyperspherical"
                 THEN Tensor(<<b, 1>>, s, "softplus_plus_1", 0)
                 ELSE Tensor(<<b, self.latent_dim>>, s, "id", 0)]
     : b \in 1..MaxDim, m \in Vals, s \in Vals}

\* latents a caller passes to decode: [batch_size, latent_dim]
LatentInputs(self) ==
    {[shape |-> <<b, self.latent_dim>>, q |-> NoDist, eps |-> e]
     : b \in 1..MaxDim, e \in Vals}

\* VAE(data_dim, latent_dim, posterior_type=...)
Construct ==
    /\ vpc = "new"
    /\ \E data_dim \in 1..MaxDim, latent_dim \in 1..MaxDim, ptype \in PosteriorInputs :
        vae' = VAE_init(data_dim, latent_dim, ptype)
    /\ vpc' = "idle"
    /\ UNCHANGED <<x, posterior_params, z, x_mu, order, ret, mainVars, expVars, placeVars, loadVars>>

\* model(x): forward is entered with fresh locals
forward_call ==
    /\ vpc = "idle"
    /\ \E input \in BatchInputs(vae) : x' = input
    /\ vpc' = "fwd_encode"
    /\ posterior_params' = NoParams
    /\ z' = NoSample
    /\ x_mu' = NoOutput
    /\ order' = <<>>
    /\ ret' = NoRet
    /\ UNCHANGED <<vae, mainVars, expVars, placeVars, loadVars>>

\* forward: posterior_params = self.encode(x)
forward_encode ==
    /\ vpc = "fwd_encode"
    /\ \E r \in encode(vae, x) :
        IF r.exc # NoExc
        THEN /\ vpc' = "idle"
             /\ ret' = Raised("forward", r.exc)
             /\ UNCHANGED <<posterior_params, order>>
        ELSE /\ vpc' = "fwd_reparameterize"
             /\ posterior_params' = r.params
             /\ order' = Append(order, "encode")
             /\ ret' = ret
    /\ UNCHANGED <<vae, x, z, x_mu, mainVars, expVars, placeVars, loadVars>>

\* forward: z, _, _ = self.reparameterize(posterior_params)
forward_reparameterize ==
    /\ vpc = "fwd_reparameterize"
    /\ \E r \in reparameterize(vae, posterior_params) :
        IF r.exc # NoExc
        THEN /\ vpc' = "idle"
             /\ ret' = Raised("forward", r.exc)
             /\ UNCHANGED <<z, order>>
        ELSE /\ vpc' = "fwd_decode"
             /\ z' = r.z
             /\ order' = Append(order, "reparameterize")
             /\ ret' = ret
    /\ UNCHANGED <<vae, x, posterior_params, x_mu, mainVars, expVars, placeVars, loadVars>>

\* forward: x_mu = self.decode(z)
forward_decode_Mean ==
    /\ vpc = "fwd_decode"
    /\ LET r == decode(vae, [shape |-> posterior_params.mu.shape, q |-> NoDist,
                             eps |-> 0]) IN
        /\ vpc' = "fwd_return"
        /\ x_mu' = r.x_mu
        /\ order' = Append(order, "decode")
        /\ ret' = ret
    /\ UNCHANGED <<vae, x, posterior_params, z, mainVars, expVars, placeVars, loadVars>>

forward_decode ==
    /\ vpc = "fwd_decode"
    /\ LET r == decode(vae, z) IN
        IF r.exc # NoExc
        THEN /\ vpc' = "idle"
             /\ ret' = Raised("forward", r.exc)
             /\ UNCHANGED <<x_mu, order>>
        ELSE /\ vpc' = "fwd_return"
             /\ x_mu' = r.x_mu
             /\ order' = Append(order, "decode")
             /\ ret' = ret
    /\ UNCHANGED <<vae, x, posterior_params, z, mainVars, expVars, placeVars, loadVars>>

\* forward: return x_mu, posterior_params
forward_return ==
    /\ vpc = "fwd_return"
    /\ vpc' = "idle"
    /\ ret' = [NoRet EXCEPT !.method = "forward", !.status = "returned",
                            !.x_mu = x_mu, !.params = posterior_params]
    /\ UNCHANGED <<vae, x, posterior_params, z, x_mu, order, mainVars, expVars, placeVars, loadVars>>

\* model.encode(x) called on its own
call_encode ==
    /\ vpc = "idle"
    /\ \E input \in BatchInputs(vae) : \E r \in encode(vae, input) :
        /\ x' = input
        /\ ret' = IF r.exc # NoExc THEN Raised("encode", r.exc)
                  ELSE [NoRet EXCEPT !.method = "encode", !.status = "returned",
                                     !.params = r.params]
    /\ posterior_params' = NoParams
    /\ z' = NoSample
    /\ x_mu' = NoOutput
    /\ order' = <<>>
    /\ UNCHANGED <<vae, vpc, mainVars, expVars, placeVars, loadVars>>

\* model.reparameterize(posterior_params) called on its own
call_reparameterize ==
    /\ vpc = "idle"
    /\ \E params \in ParamInputs(vae) : \E r \in reparameterize(vae, params) :
        /\ posterior_params' = params
        /\ ret' = IF r.exc # NoExc THEN Raised("reparameterize", r.exc)
                  ELSE [NoRet EXCEPT !.method = "reparameterize",
                                     !.status = "returned",
                                     !.z = r.z, !.q_z = r.q_z, !.p_z = r.p_z]
    /\ x' = NoTensor
    /\ z' = NoSample
    /\ x_mu' = NoOutput
    /\ order' = <<>>
    /\ UNCHANGED <<vae, vpc, mainVars, expVars, placeVars, loadVars>>

\* model.decode(z) called on its own
call_decode ==
    /\ vpc = "idle"
    /\ \E latent \in LatentInputs(vae) :
        LET r == decode(vae, latent) IN
        /\ z' = latent
        /\ ret' = IF r.exc # NoExc THEN Raised("decode", r.exc)
                  ELSE [NoRet EXCEPT !.method = "decode", !.status = "returned",
                                     !.x_mu = r.x_mu]
    /\ x' = NoTensor
    /\ posterior_params' = NoParams
    /\ x_mu' = NoOutput
    /\ order' = <<>>
    /\ UNCHANGED <<vae, vpc, mainVars, expVars, placeVars, loadVars>>

VAEOff ==
    /\ vae = NoVAE
    /\ vpc = "off"
    /\ x = NoTensor
    /\ posterior_params = NoParams
    /\ z = NoSample
    /\ x_mu = NoOutput
    /\ order = <<>>
    /\ ret = NoRet

VAENew ==
    /\ vae = NoVAE
    /\ vpc = "new"
    /\ x = NoTensor
    /\ posterior_params = NoParams
    /\ z = NoSample
    /\ x_mu = NoOutput
    /\ order = <<>>
    /\ ret = NoRet

NextVAE ==
    \/ Construct
    \/ forward_call
    \/ forward_encode
    \/ forward_reparameterize
    \/ forward_decode
    \/ forward_return
    \/ call_encode
    \/ call_reparameterize
    \/ call_decode

\* ====================================================================
\* neurometry/datasets/piRNNs/saliency/experiment.py: class Experiment
\* ====================================================================

\* `if 120000 > step > 10000`: the steps that assign lr
LrFrom == 10000

LrUntil == 120000

\* `if 10000 < step < 20000`: the steps that measure the grid scale
GridFrom == 10000

GridUntil == 20000

\* Experiment.__init__: starting_step is 1, or the step of the checkpoint
StartingSteps == {1, LrFrom, LrFrom + 1, GridUntil - 1, LrUntil - 1}

\* the parameters of self.model the experiment names: encoder.v, trans.b and
\* those of self.model.decoder
Params == {"encoder.v", "trans.b", "decoder.u"}

\* self.model.decoder.parameters()
DecoderParams == {"decoder.u"}

\* the values a parameter entry takes
Weights == (-MaxWeight)..MaxWeight

\* the values an optimizer step is tried with, for each parameter: of
\* encoder.v one block of one entry is followed, which is negative, zero or
\* positive and not of unit length; trans.b and decoder.u are one entry each
ParamDomain(p) ==
    CASE p = "encoder.v" -> {-MaxWeight, 0, MaxWeight}
      [] p = "trans.b" -> {-1, 1}
      [] OTHER -> {0, 1}

ParamValues == {q \in [Params -> Weights] : \A p \in Params : q[p] \in ParamDomain(p)}

\* the parameters as model.GridCell(...) or the checkpoint sets them
InitialParams == [p \in Params |-> 1]

\* the optimizer types Experiment.__init__ has a branch for
OptimizerTypes == {"adam", "adam_w", "sgd"}

NoOptimizer == [type |-> "none", params |-> {}]

\* every parameter of the model, whatever requires_grad says
Trainable_All(rg) == Params

\* `filter(lambda p: p.requires_grad, self.model.parameters())`
Trainable(rg) == {p \in Params : rg[p]}

\* Experiment.__init__(rng, config, device)
Experiment_init ==
    /\ epc = "new"
    /\ epc' = "constructed"
    /\ LET rg == [p \in Params |->
                    IF freeze_decoder /\ p \in DecoderParams THEN FALSE ELSE TRUE]
       IN /\ requires_grad' = rg
          /\ optimizer' = IF train.optimizer_type \in {"adam", "adam_w", "sgd"}
                          THEN [type |-> train.optimizer_type, params |-> Trainable(rg)]
                          ELSE NoOptimizer
    \* model.GridCell(...) initialises the parameters; load_state_dict puts
    \* the checkpoint's in their place
    /\ param_data' = InitialParams
    /\ starting_step' = IF train.load_pretrain THEN ckpt_step ELSE 1
    /\ UNCHANGED <<train, freeze_decoder, ckpt_step, step, lr, group_lr,
                   train_metrics, errors, scale_vector, eexc, events, observed,
                   batches, executed, logged, grid_call,
                   num_neurons, num_masks,
                   mainVars, vaeVars, placeVars, loadVars>>

\* train_and_evaluate up to the `for`: train_metrics = [], errors = []
train_and_evaluate ==
    /\ epc = "constructed"
    /\ epc' = "loop"
    /\ step' = starting_step
    /\ train_metrics' = <<>>
    /\ errors' = <<>>
    /\ UNCHANGED <<train, freeze_decoder, ckpt_step, requires_grad, optimizer,
                   param_data, starting_step, lr, group_lr, scale_vector, eexc,
                   events, observed, batches, executed, logged, grid_call,
                   num_neurons, num_masks,
                   mainVars, vaeVars, placeVars, loadVars>>

Divides(period, n) == n % period = 0

\* the end of the range taken one step too far
range_stop_Inclusive == train.num_steps_train + starting_step + 1

\* `range(self.starting_step, config.num_steps_train + self.starting_step)`
range_stop == train.num_steps_train + starting_step

\* train_and_evaluate, `if step % steps_per_logging == 0 or step == 1`
FlushesMetrics(s) == Divides(train.steps_per_logging, s) \/ s = 1

\* train_and_evaluate, the condition of the large logging block
LargeLogs(s) == s = starting_step \/ Divides(train.steps_per_large_logging, s)

\* train_and_evaluate, the condition of the path integration block
Integrates(s) == Divides(train.steps_per_integration, s) \/ s = starting_step

\* the window with its upper end included
MeasuresGrid_Closed(s) == GridFrom < s /\ s <= GridUntil

\* train_and_evaluate, `if 10000 < step < 20000`
MeasuresGrid(s) == GridFrom < s /\ s < GridUntil

\* `encoder.v.data.clamp(min=0.0)`, on one entry
clamp_min0(w) == IF w < 0 THEN 0 ELSE w

\* the entry as it is
abs_Skipped(w) == w

\* `trans.b.data.abs()`, on one entry
abs(w) == IF w < 0 THEN -w ELSE w

\* `nn.functional.normalize(v, dim=1) / np.sqrt(num_block)` on a block of one
\* entry with num_block = 1: w / max(|w|, eps)
normalize(w) == IF w > 0 THEN 1 ELSE IF w < 0 THEN -1 ELSE 0

\* the parameters `self.model(batch_data, step)` and loss.backward() write:
\* none, the optimizer is what mutates the parameters
ForwardWrites == {}

\* self.model(...), loss.backward(), clip_grad_norm_, optimizer.step(): the
\* parameters the optimizer holds move, the others stay
StepOutcomes(ps, opt) ==
    {q \in ParamValues : \A p \in Params \ (opt.params \cup ForwardWrites) : q[p] = ps[p]}

\* what a block of the loop body sees of the parameters when it runs
Sees(by, ps) == [by |-> by, b |-> ps["trans.b"], v |-> ps["encoder.v"]]

\* `score_list > 0.37`, in hundredths
ScoreThreshold == 37

\* range(len(weights)): the units grid_scale scores
Units == 1..num_neurons

\* score_60 of scorer.get_scores(weights[i]), in hundredths: at the threshold
\* or above it
Scores == {ScoreThreshold, ScoreThreshold + 1}

\* max_60_mask[1] of scorer.get_scores(weights[i]): the outer radius of one
\* of the ring masks, `ends` being increasing and positive
Scales == 1..num_masks

\* the units with a score of 0.37 or more
Selected_Closed(score_list) == {i \in DOMAIN score_list : score_list[i] >= ScoreThreshold}

\* the boolean mask `score_list > 0.37`: the units it keeps
Selected(score_list) == {i \in DOMAIN score_list : score_list[i] > ScoreThreshold}

\* torch.max(tensor) of a one-dimensional tensor given as the set of its
\* entries; 0 stands for the RuntimeError torch.max raises on an empty tensor
torch_max(entries) ==
    IF entries = {} THEN 0
    ELSE CHOOSE m \in entries : \A e \in entries : e <= m

\* Experiment.grid_scale, from the per-unit results of scorer.get_scores:
\* max_scale = torch.max(scale_tensor[score_list > 0.37])
grid_scale(score_list, scale_list) ==
    LET max_scale == torch_max({scale_list[i] : i \in Selected(score_list)})
    IN  [score_list |-> score_list, scale_list |-> scale_list,
         raised |-> max_scale = 0, max_scale |-> max_scale]

\* no grid_scale call in the step
NoGridCall == [score_list |-> <<>>, scale_list |-> <<>>, raised |-> FALSE, max_scale |-> 0]

\* the train step ends in an exception: the loop and the method are over
StepRaises(e, evs, obs) ==
    /\ epc' = "raised"
    /\ eexc' = e
    /\ events' = evs
    /\ observed' = obs
    /\ UNCHANGED <<step, errors, scale_vector>>

\* the train step runs to its end
StepEnds(evs, obs) ==
    /\ epc' = "loop"
    /\ eexc' = eexc
    /\ step' = step + 1
    /\ events' = evs
    /\ observed' = obs

\* train_and_evaluate: one turn of `for step in range(starting_step,
\* num_steps_train + starting_step)`, the whole body
TrainStep ==
    /\ epc = "loop"
    /\ step < range_stop
    /\ batches' = batches + 1
    /\ executed' = Append(executed, step)
    /\ LET lr1 == IF LrUntil > step /\ step > LrFrom THEN "config.lr" ELSE lr IN
        /\ lr' = lr1
        /\ IF optimizer = NoOptimizer
           THEN \* self.optimizer was never set
                /\ StepRaises(Exc("AttributeError", "optimizer", "train_and_evaluate"),
                              <<"next(train_iter)">>, <<>>)
                /\ grid_call' = NoGridCall
                /\ UNCHANGED <<group_lr, param_data, train_metrics, logged>>
           ELSE IF lr1 = "unbound"
           THEN \* param_group["lr"] = lr reads a local that was never bound
                /\ StepRaises(Exc("UnboundLocalError", "lr", "train_and_evaluate"),
                              <<"next(train_iter)">>, <<>>)
                /\ grid_call' = NoGridCall
                /\ UNCHANGED <<group_lr, param_data, train_metrics, logged>>
           ELSE \E stepped \in StepOutcomes(param_data, optimizer) :
                LET clamped == IF train.positive_v
                               THEN [stepped EXCEPT !["encoder.v"] = clamp_min0(@)]
                               ELSE stepped
                    absed == [clamped EXCEPT !["trans.b"] = abs(@)]
                    normed == IF train.norm_v
                              THEN [absed EXCEPT !["encoder.v"] = normalize(@)]
                              ELSE absed
                    metrics == Append(train_metrics, step)
                    ev_train == <<"next(train_iter)", "set_lr", "optimizer.step">>
                                \o (IF train.positive_v THEN <<"clamp_v">> ELSE <<>>)
                                \o <<"abs_b">>
                                \o (IF train.norm_v THEN <<"normalize_v">> ELSE <<>>)
                                \o <<"append_metrics">>
                                \o (IF FlushesMetrics(step) THEN <<"log_metrics">> ELSE <<>>)
                                \o (IF LargeLogs(step) THEN <<"large_logging">> ELSE <<>>)
                    ob_train == (IF FlushesMetrics(step)
                                 THEN <<Sees("log_metrics", normed)>> ELSE <<>>)
                                \o (IF LargeLogs(step)
                                    THEN <<Sees("large_logging", normed)>> ELSE <<>>)
                IN  /\ group_lr' = lr1
                    /\ param_data' = normed
                    /\ IF FlushesMetrics(step)
                       THEN /\ logged' = Append(logged, [step |-> step, of |-> metrics])
                            /\ train_metrics' = <<>>
                       ELSE /\ logged' = logged
                            /\ train_metrics' = metrics
                    /\ IF ~Integrates(step)
                       THEN /\ StepEnds(ev_train, ob_train)
                            /\ grid_call' = NoGridCall
                            /\ UNCHANGED <<errors, scale_vector>>
                       ELSE IF ~MeasuresGrid(step)
                       THEN /\ StepEnds(ev_train \o <<"next(eval_iter)", "path_integration",
                                                     "log_err", "append_errors">>,
                                        Append(ob_train, Sees("path_integration", normed)))
                            /\ errors' = Append(errors, step)
                            /\ grid_call' = NoGridCall
                            /\ UNCHANGED scale_vector
                       ELSE \E score_list \in [Units -> Scores], scale_list \in [Units -> Scales] :
                            \* grid_scale: torch.max of an empty selection raises
                            LET called == grid_scale(score_list, scale_list) IN
                            /\ grid_call' = called
                            /\ IF ~called.raised
                               THEN /\ StepEnds(ev_train \o <<"next(eval_iter)", "grid_scale",
                                                    "write_scale_vector", "log_score",
                                                    "path_integration", "log_err",
                                                    "append_errors">>,
                                                Append(ob_train, Sees("path_integration", normed)))
                                    /\ scale_vector' = step
                                    /\ errors' = Append(errors, step)
                               ELSE StepRaises(Exc("RuntimeError", "max", "grid_scale"),
                                               ev_train \o <<"next(eval_iter)", "grid_scale">>,
                                               ob_train)
    /\ UNCHANGED <<train, freeze_decoder, ckpt_step, requires_grad, optimizer,
                   starting_step, num_neurons, num_masks,
                   mainVars, vaeVars, placeVars, loadVars>>

\* train_and_evaluate: `return errors, self.model`
TrainReturn ==
    /\ epc = "loop"
    /\ step >= range_stop
    /\ epc' = "returned"
    /\ UNCHANGED <<train, freeze_decoder, ckpt_step, requires_grad, optimizer,
                   param_data, starting_step, step, lr, group_lr, train_metrics, errors,
                   scale_vector, eexc, events, observed, batches, executed, logged,
                   grid_call, num_neurons, num_masks,
                   mainVars, vaeVars, placeVars, loadVars>>

ExpOff ==
    /\ train = [num_steps_train |-> 0, steps_per_logging |-> 1,
                steps_per_large_logging |-> 1, steps_per_integration |-> 1,
                positive_v |-> FALSE, norm_v |-> FALSE, optimizer_type |-> "adam",
                load_pretrain |-> FALSE]
    /\ freeze_decoder = FALSE
    /\ ckpt_step = 0
    /\ requires_grad = [p \in Params |-> TRUE]
    /\ optimizer = NoOptimizer
    /\ param_data = [p \in Params |-> 0]
    /\ starting_step = 0
    /\ epc = "off"
    /\ step = 0
    /\ lr = "unbound"
    /\ group_lr = "config.lr"
    /\ train_metrics = <<>>
    /\ errors = <<>>
    /\ scale_vector = 0
    /\ eexc = NoExc
    /\ events = <<>>
    /\ observed = <<>>
    /\ batches = 0
    /\ executed = <<>>
    /\ logged = <<>>
    /\ grid_call = NoGridCall
    /\ num_neurons = 0
    /\ num_masks = 0

NextExp ==
    \/ Experiment_init
    \/ train_and_evaluate
    \/ TrainStep
    \/ TrainReturn

\* ====================================================================
\* abn/datasets/synthetic.py: load_place_cells
\* ====================================================================

\* np.zeros(n_cells), as a sequence: position k + 1 holds cell k. An entry r > 0
\* stands for a draw np.random.poisson(r), 0 for the zero np.zeros put there.
Zeros(n) == [k \in 1..n |-> 0]

\* cell_firings[index] = np.random.poisson(rate), with Python's negative
\* indices; <<>> stands for the IndexError of an index outside -n..n-1
SetItem(row, index, rate) ==
    IF row = <<>> \/ index < -Len(row) \/ index >= Len(row) THEN <<>>
    ELSE [row EXCEPT ![(IF index < 0 THEN index + Len(row) ELSE index) + 1] = rate]

\* the five assignments of a branch, in order
SetItems(row, i1, i2, i3, i4, i5) ==
    SetItem(SetItem(SetItem(SetItem(SetItem(row, i1, 1), i2, 2), i3, 4), i4, 2), i5, 1)

\* load_place_cells: cell_firings for one i_cell, the if/elif/else chain
cell_firings(i, n) ==
    IF i = 0 THEN SetItems(Zeros(n), -2, -1, 0, 1, 2)
    ELSE IF i = 1 THEN SetItems(Zeros(n), -1, 0, 1, 2, 3)
    ELSE IF i = n - 2 THEN SetItems(Zeros(n), -4, -3, -2, -1, 0)
    ELSE IF i = n - 1 THEN SetItems(Zeros(n), -3, -2, -1, 0, 1)
    ELSE SetItems(Zeros(n), i - 2, i - 1, i, i + 1, i - 3)

\* int(n_times / n_cells) for non-negative n_times and positive n_cells
n_firing_per_cell == n_times \div n_cells

\* load_place_cells: one turn of `for i_cell in range(n_cells)`
PlaceCellRow ==
    /\ ppc = "loop"
    /\ rep < n_firing_per_cell
    /\ LET row == cell_firings(i_cell, n_cells) IN
        IF row = <<>>
        THEN /\ ppc' = "raised"
             /\ pexc' = Exc("IndexError", "cell_firings", "load_place_cells")
             /\ UNCHANGED <<rep, i_cell, place_cells, labels>>
        ELSE /\ place_cells' = Append(place_cells, row)
             /\ labels' = Append(labels, [num |-> i_cell * 360, den |-> n_cells])
             /\ IF i_cell + 1 < n_cells
                THEN i_cell' = i_cell + 1 /\ rep' = rep
                ELSE i_cell' = 0 /\ rep' = rep + 1
             /\ UNCHANGED <<ppc, pexc>>
    /\ UNCHANGED <<n_times, n_cells, mainVars, vaeVars, expVars, loadVars>>

\* load_place_cells: `return np.array(place_cells), pd.DataFrame(...)`
PlaceCellReturn ==
    /\ ppc = "loop"
    /\ rep >= n_firing_per_cell
    /\ ppc' = "returned"
    /\ UNCHANGED <<n_times, n_cells, rep, i_cell, place_cells, labels, pexc,
                   mainVars, vaeVars, expVars, loadVars>>

PlaceOff ==
    /\ n_times = 0
    /\ n_cells = 1
    /\ rep = 0
    /\ i_cell = 0
    /\ place_cells = <<>>
    /\ labels = <<>>
    /\ ppc = "off"
    /\ pexc = NoExc

NextPlace ==
    \/ PlaceCellRow
    \/ PlaceCellReturn

\* ====================================================================
\* abn/datasets/synthetic.py: load_images, load_projections, load_points
\* ====================================================================

\* the quotient num / den of a true division, kept as the pair; unit names
\* what the number counts (degrees for the images, pi radians for the points)
Frac(num, den, unit) == [num |-> num, den |-> den, unit |-> unit]

\* load_images: `angle = 360 * i_angle / n_angles`
image_angle(i) == Frac(360 * i, n_angles, "deg")

\* the value 1 + 0.2 * (i_scalar + 1), in tenths
image_scalar_OneBased(i) == 10 + 2 * (i + 1)

\* load_images: `scalar = 1 + 0.2 * i_scalar`, in tenths
image_scalar(i) == 10 + 2 * i

\* load_images: (blur_image + noise).astype(np.float32), the camera image
\* resized to img_size x img_size, rotated by angle and blurred with sigma
blur_image(angle, sigma) ==
    [shape |-> <<img_size, img_size>>, rotate |-> angle, sigma |-> sigma]

\* pd.DataFrame({"angles": angles, "scalars": scalars}): one row per entry
DataFrame(as, ss) == [k \in 1..Len(as) |-> [angles |-> as[k], scalars |-> ss[k]]]

\* the inner and the outer `for` of the loaders: the indices of the next turn
NextIndices ==
    IF i_scalar + 1 < n_scalars
    THEN /\ i_scalar' = i_scalar + 1
         /\ i_angle' = i_angle
    ELSE /\ i_scalar' = 0
         /\ i_angle' = i_angle + 1

\* load_images: one turn of `for i_scalar in range(n_scalars)`, inside
\* `for i_angle in range(n_angles)`; load_projections runs it by its call
load_images_append ==
    /\ lpc = "loop"
    /\ loader \in {"load_images", "load_projections"}
    /\ i_angle < n_angles
    /\ LET angle == image_angle(i_angle)
           scalar == image_scalar(i_scalar) IN
        /\ observations' = Append(observations, blur_image(angle, scalar))
        /\ angles' = Append(angles, angle)
        /\ scalars' = Append(scalars, scalar)
    /\ NextIndices
    /\ UNCHANGED <<loader, n_scalars, n_angles, img_size, lpc, lret,
                   mainVars, vaeVars, expVars, placeVars>>

\* load_images: `return np.array(images), labels`
load_images_return ==
    /\ lpc = "loop"
    /\ loader = "load_images"
    /\ i_angle >= n_angles
    /\ lpc' = "returned"
    /\ lret' = [data |-> observations, labels |-> DataFrame(angles, scalars)]
    /\ UNCHANGED <<loader, n_scalars, n_angles, img_size, i_angle, i_scalar,
                   observations, angles, scalars,
                   mainVars, vaeVars, expVars, placeVars>>

\* np.sum(images, axis=-1) for one image: the last axis is summed away
SumLastAxis(image) ==
    [shape |-> SubSeq(image.shape, 1, Len(image.shape) - 1), sum_of |-> image]

\* load_projections: the call of load_images has returned;
\* `projections = np.sum(images, axis=-1)`, `return projections, labels`
load_projections_return ==
    /\ lpc = "loop"
    /\ loader = "load_projections"
    /\ i_angle >= n_angles
    /\ lpc' = "returned"
    /\ lret' = [data |-> [k \in 1..Len(observations) |-> SumLastAxis(observations[k])],
                labels |-> DataFrame(angles, scalars)]
    /\ UNCHANGED <<loader, n_scalars, n_angles, img_size, i_angle, i_scalar,
                   observations, angles, scalars,
                   mainVars, vaeVars, expVars, placeVars>>

\* a number c * cos(angle) + s * sin(angle) + k with integer c, s, k
Trig(c, s, k) == [c |-> c, s |-> s, k |-> k]

TrigAdd(a, b) == Trig(a.c + b.c, a.s + b.s, a.k + b.k)

TrigScale(n, a) == Trig(n * a.c, n * a.s, n * a.k)

\* load_points: `point = np.array([1, 1, 1])`
point == <<1, 1, 1>>

\* load_points: `angle = 2 * np.pi * i_angle / n_angles`
point_angle(i) == Frac(2 * i, n_angles, "pi")

\* load_points: rotmat, whose entries are taken at `angle`
rotmat ==
    << <<Trig(1, 0, 0), Trig(0, -1, 0), Trig(0, 0, 0)>>,
       <<Trig(0, 1, 0), Trig(1, 0, 0),  Trig(0, 0, 0)>>,
       <<Trig(0, 0, 0), Trig(0, 0, 0),  Trig(0, 0, 1)>> >>

\* rotmat @ point
MatVec(m, p) ==
    [r \in 1..3 |->
        TrigAdd(TrigAdd(TrigScale(p[1], m[r][1]), TrigScale(p[2], m[r][2])),
                TrigScale(p[3], m[r][3]))]

\* the value i_scalar, the index itself
point_scalar_ZeroBased(i) == i

\* load_points: `scalar = 1 + i_scalar`
point_scalar(i) == 1 + i

\* load_points: one turn of `for i_scalar in range(n_scalars)`, inside
\* `for i_angle in range(n_angles)`
load_points_append ==
    /\ lpc = "loop"
    /\ loader = "load_points"
    /\ i_angle < n_angles
    /\ LET angle == point_angle(i_angle)
           rot_point == MatVec(rotmat, point)
           scalar == point_scalar(i_scalar) IN
        /\ observations' = Append(observations,
               [at |-> angle, coords |-> [r \in 1..3 |-> TrigScale(scalar, rot_point[r])]])
        /\ angles' = Append(angles, angle)
        /\ scalars' = Append(scalars, scalar)
    /\ NextIndices
    /\ UNCHANGED <<loader, n_scalars, n_angles, img_size, lpc, lret,
                   mainVars, vaeVars, expVars, placeVars>>

\* load_points: `return np.array(points), labels`
load_points_return ==
    /\ lpc = "loop"
    /\ loader = "load_points"
    /\ i_angle >= n_angles
    /\ lpc' = "returned"
    /\ lret' = [data |-> observations, labels |-> DataFrame(angles, scalars)]
    /\ UNCHANGED <<loader, n_scalars, n_angles, img_size, i_angle, i_scalar,
                   observations, angles, scalars,
                   mainVars, vaeVars, expVars, placeVars>>

NoLoad == [data |-> <<>>, labels |-> <<>>]

LoadOff ==
    /\ loader = "none"
    /\ n_scalars = 1
    /\ n_angles = 1
    /\ img_size = 1
    /\ i_angle = 0
    /\ i_scalar = 0
    /\ observations = <<>>
    /\ angles = <<>>
    /\ scalars = <<>>
    /\ lpc = "off"
    /\ lret = NoLoad

NextLoad ==
    \/ load_images_append
    \/ load_images_return
    \/ load_projections_return
    \/ load_points_append
    \/ load_points_return

\* lists of at most n entries
SeqsUpTo(S, n) == UNION {[1..k -> S] : k \in 0..n}

MainOff ==
    /\ dataset_name = <<>>
    /\ cfg_i = 1
    /\ launcher_attrs = {}
    /\ sweep = [posterior |-> "<none>", dataset |-> "<none>"]
    /\ pc = "off"
    /\ exc = NoExc
    /\ model = "unbound"
    /\ trace = <<>>

InitMain ==
    /\ VAEOff
    /\ ExpOff
    /\ PlaceOff
    /\ LoadOff
    /\ dataset_name \in SeqsUpTo(DatasetInputs, MaxNames)
    /\ cfg_i = 1
    /\ launcher_attrs \in SUBSET LauncherNames
    /\ sweep \in [posterior : SweepPosteriors, dataset : SweepDatasets]
    /\ pc = "import_default_config"
    /\ exc = NoExc
    /\ model = "unbound"
    /\ trace = <<>>

NextMain ==
    \/ CheckDatasetName
    \/ ImportDone
    \/ WandbInit
    \/ LoadData
    \/ train_test_model
    \/ plot_and_log
    \/ evaluate_curvature
    \/ WandbFinish

SpecMain == InitMain /\ [][NextMain]_vars

InitVAE ==
    /\ MainOff
    /\ ExpOff
    /\ PlaceOff
    /\ LoadOff
    /\ VAENew

SpecVAE == InitVAE /\ [][NextVAE]_vars

\* Experiment(rng, config, device) is about to be constructed: the config
\* and, when load_pretrain is set, the checkpoint it names
InitExp ==
    /\ MainOff
    /\ VAEOff
    /\ PlaceOff
    /\ LoadOff
    /\ ckpt_step \in {0} \cup (StartingSteps \ {1})
    /\ train \in [num_steps_train : 0..MaxTrainSteps,
                  steps_per_logging : 1..MaxPeriod,
                  steps_per_large_logging : 1..MaxPeriod,
                  steps_per_integration : 1..MaxPeriod,
                  positive_v : BOOLEAN,
                  norm_v : BOOLEAN,
                  optimizer_type : OptimizerTypes,
                  load_pretrain : {ckpt_step # 0}]
    /\ freeze_decoder \in BOOLEAN
    /\ requires_grad = [p \in Params |-> TRUE]
    /\ optimizer = NoOptimizer
    /\ param_data = [p \in Params |-> 0]
    /\ starting_step = 0
    /\ epc = "new"
    /\ step = 0
    /\ lr = "unbound"
    /\ group_lr = "config.lr"
    /\ train_metrics = <<>>
    /\ errors = <<>>
    /\ scale_vector = 0
    /\ eexc = NoExc
    /\ events = <<>>
    /\ observed = <<>>
    /\ batches = 0
    /\ executed = <<>>
    /\ logged = <<>>
    /\ grid_call = NoGridCall
    /\ num_neurons = 1
    /\ num_masks = 1

SpecExp == InitExp /\ [][NextExp]_vars

\* the interpreter runs the constructor and the loop on: a statement that
\* can run does run
SpecExpLive == InitExp /\ [][NextExp]_vars /\ WF_vars(NextExp)

\* load_place_cells(n_times, n_cells) is entered
\* the experiment continued from a checkpoint taken at the last step of the
\* grid window, with the training options of configs/rnn_isometry.py, on
\* every number of units and of ring masks: the first step calls grid_scale
InitGrid ==
    /\ MainOff
    /\ VAEOff
    /\ PlaceOff
    /\ LoadOff
    /\ ckpt_step = GridUntil - 1
    /\ train \in [num_steps_train : 0..MaxTrainSteps,
                  steps_per_logging : {1},
                  steps_per_large_logging : {1},
                  steps_per_integration : 1..MaxPeriod,
                  positive_v : {TRUE},
                  norm_v : {TRUE},
                  optimizer_type : {"adam"},
                  load_pretrain : {TRUE}]
    /\ freeze_decoder = FALSE
    /\ requires_grad = [p \in Params |-> TRUE]
    /\ optimizer = NoOptimizer
    /\ param_data = [p \in Params |-> 0]
    /\ starting_step = 0
    /\ epc = "new"
    /\ step = 0
    /\ lr = "unbound"
    /\ group_lr = "config.lr"
    /\ train_metrics = <<>>
    /\ errors = <<>>
    /\ scale_vector = 0
    /\ eexc = NoExc
    /\ events = <<>>
    /\ observed = <<>>
    /\ batches = 0
    /\ executed = <<>>
    /\ logged = <<>>
    /\ grid_call = NoGridCall
    /\ num_neurons \in 1..MaxUnits
    /\ num_masks \in 1..MaxMasks

SpecGrid == InitGrid /\ [][NextExp]_vars

InitPlace ==
    /\ MainOff
    /\ VAEOff
    /\ ExpOff
    /\ LoadOff
    /\ n_times \in 0..MaxTimes
    /\ n_cells \in 1..MaxCells
    /\ rep = 0
    /\ i_cell = 0
    /\ place_cells = <<>>
    /\ labels = <<>>
    /\ ppc = "loop"
    /\ pexc = NoExc

SpecPlace == InitPlace /\ [][NextPlace]_vars

\* one of the three loaders is entered; the counts of angles and of scalars
\* and the image size are positive
InitLoad ==
    /\ MainOff
    /\ VAEOff
    /\ ExpOff
    /\ PlaceOff
    /\ loader \in {"load_images", "load_projections", "load_points"}
    /\ n_scalars \in 1..MaxScalars
    /\ n_angles \in 1..MaxAngles
    /\ img_size \in 1..MaxImgSize
    /\ i_angle = 0
    /\ i_scalar = 0
    /\ observations = <<>>
    /\ angles = <<>>
    /\ scalars = <<>>
    /\ lpc = "loop"
    /\ lret = NoLoad

SpecLoad == InitLoad /\ [][NextLoad]_vars

Init ==
    \/ InitMain
    \/ InitVAE
    \/ InitExp
    \/ InitGrid
    \/ InitPlace
    \/ InitLoad

Next ==
    \/ NextMain
    \/ NextVAE
    \/ NextExp
    \/ NextPlace
    \/ NextLoad

Spec == Init /\ [][Next]_vars

\* ====================================================================
\* Properties
\* ====================================================================

\* the statements of main.py that follow the import of default_config
AfterImport == {"wandb_init", "load_data", "train_test_model", "plot_and_log",
                "evaluate_curvature", "wandb_finish", "exited"}

\* train_test_model has run its if/elif on config.posterior_type
AfterDispatch ==
    \/ pc \in {"plot_and_log", "evaluate_curvature", "wandb_finish"}
    \/ pc = "exited" /\ exc.at \in {"train_test_model", "plot_and_log",
                                    "evaluate_curvature"}
    \/ pc = "exited" /\ exc = NoExc

\* the entries of a sequence
Range(seq) == {seq[k] : k \in 1..Len(seq)}

\* C1: once default_config has run its check of dataset_name, a ValueError
\* naming the first unrecognised entry has been raised if the list holds an
\* entry outside the five dataset names, and then the script is over without a
\* model built or trained; if every entry is one of the five, the check raised
\* no error. While the check runs, the entries it has passed are recognised.
C1_DatasetNamesValidated ==
    LET five == {"s1_synthetic", "s2_synthetic", "t2_synthetic", "experimental",
                 "grid_cells"}
        bad == {k \in 1..Len(dataset_name) : dataset_name[k] \notin five}
    IN /\ pc = "import_default_config" =>
            \A k \in 1..(cfg_i - 1) : dataset_name[k] \in five
       /\ pc \in AfterImport =>
            IF bad # {}
            THEN /\ exc.type = "ValueError"
                 /\ exc.at = "default_config"
                 /\ \E k \in bad : /\ exc.arg = dataset_name[k]
                                   /\ \A j \in bad : k <= j
                 /\ pc = "exited"
                 /\ model = "unbound"
                 /\ trace = <<>>
            ELSE exc.type # "ValueError"

\* C1, its case: a list whose first entry is recognised and whose second entry
\* is not was rejected with a ValueError naming the second entry.
C1_Witness ==
    /\ pc = "exited"
    /\ exc.type = "ValueError"
    /\ Len(dataset_name) = 2
    /\ dataset_name[1] = "grid_cells"
    /\ exc.arg = dataset_name[2]

\* C2: a posterior name outside gaussian, hyperspherical, toroidal is surfaced
\* as a raised exception: after the dispatch of main.train_test_model an
\* exception has been raised and no model exists, and no fc_vae.VAE object
\* exists that was constructed with such a name.
C2_UnrecognisedPosteriorRaises ==
    LET names == {"gaussian", "hyperspherical", "toroidal"} IN
    /\ (AfterDispatch /\ sweep.posterior \notin names \cup {"<none>"}) =>
            (exc.type # "none" /\ model = "unbound")
    /\ vpc \notin {"off", "new"} => vae.posterior_type \in names

\* C3: the script never ends with an exception that propagated out of
\* train_test_model, plot_and_log or evaluate_curvature.
C3_ExceptionsCaught ==
    ~(/\ pc = "exited"
      /\ exc.at \in {"train_test_model", "plot_and_log", "evaluate_curvature"})

\* C3, as amended: an exception raised in train_test_model, plot_and_log or
\* evaluate_curvature is caught nowhere: the script is over at that point, the
\* later stages have not run and wandb.finish() has not been called.
C3_ExceptionEndsScript ==
    exc.at \in {"train_test_model", "plot_and_log", "evaluate_curvature"} =>
        /\ pc = "exited"
        /\ "wandb.finish" \notin Range(trace)
        /\ "log:fig_curv_norms_learned" \notin Range(trace)
        /\ exc.at \in {"train_test_model", "plot_and_log"} =>
                "curvature_learned" \notin Range(trace)
        /\ exc.at = "train_test_model" =>
                ("train" \notin Range(trace) /\ "plot" \notin Range(trace))

\* C3, its case: training succeeded, plot_and_log raised, the script is over.
C3_Witness ==
    /\ pc = "exited"
    /\ exc.at = "plot_and_log"
    /\ "train" \in Range(trace)

\* C4: after the dispatch of train_test_model, gaussian and hyperspherical have
\* selected NeuralVAE and toroidal has selected ToroidalVAE, and with the
\* posterior type the run configuration carries from default_config exactly
\* one model was constructed, before the optimizer was created.
C4_OneModelDispatched ==
    AfterDispatch =>
        /\ sweep.posterior \in {"gaussian", "hyperspherical"} => model = "NeuralVAE"
        /\ sweep.posterior = "toroidal" => model = "ToroidalVAE"
        /\ (sweep.posterior = "<none>" /\ dataset_name # <<>>) =>
            /\ model \in {"NeuralVAE", "ToroidalVAE"}
            /\ Cardinality({k \in 1..Len(trace) :
                              trace[k] \in {"NeuralVAE", "ToroidalVAE"}}) = 1
            /\ \E k \in 1..(Len(trace) - 1) :
                    trace[k] = model /\ trace[k + 1] = "optimizer"

\* C5: forward calls encode, reparameterize and decode once each, in this
\* order; when it returns, the latent that was decoded is the sample z drawn
\* from the posterior built from the posterior_params it returns, and these
\* are an output of encode for the x of this very call.
C5_ForwardSequence ==
    /\ vpc = "fwd_encode" => order = <<>>
    /\ vpc = "fwd_reparameterize" => order = <<"encode">>
    /\ vpc = "fwd_decode" => order = <<"encode", "reparameterize">>
    /\ vpc = "fwd_return" =>
            /\ order = <<"encode", "reparameterize", "decode">>
            /\ x_mu.of_z = z
    /\ (ret.method = "forward" /\ ret.status = "returned") =>
            /\ order = <<"encode", "reparameterize", "decode">>
            /\ ret.x_mu.of_z = z
            /\ ret.x_mu.shape = x.shape
            /\ z.q.loc = ret.params.mu
            /\ z.q.scale.v = ret.params.second.v
            /\ z.q.scale.of = x.of
            /\ ret.params = posterior_params
            /\ ret.params.mu.of = x.of
            /\ \E r \in encode(vae, x) : r.params = ret.params

\* C5, its case: a forward call on a hyperspherical VAE has returned.
C5_Witness ==
    /\ ret.method = "forward"
    /\ ret.status = "returned"
    /\ vae.posterior_type = "hyperspherical"
    /\ z.q.family = "VonMisesFisher"

\* C6: for gaussian, hyperspherical and toroidal alike, a call of
\* reparameterize returns a sample z, a posterior q_z and a prior p_z.
C6_ThreeFamilies ==
    (/\ ret.method = "reparameterize"
     /\ vae.posterior_type \in {"gaussian", "hyperspherical", "toroidal"}) =>
        /\ ret.status = "returned"
        /\ ret.q_z.family # "none"
        /\ ret.p_z.family # "none"
        /\ ret.z.q = ret.q_z

\* C6, as amended: reparameterize dispatches on the two families VAE knows.
\* gaussian: q_z is Normal with mean z_mu and std exp(0.5 * z_logvar);
\* hyperspherical: q_z is von Mises-Fisher (z_mu, z_kappa) and p_z the uniform
\* prior on the sphere of dimension latent_dim - 1; in both cases z, sampled
\* from q_z, is returned with q_z and p_z. For toroidal, as for any other
\* name, no posterior is built and the call raises UnboundLocalError.
C6_TwoFamilies ==
    ret.method = "reparameterize" =>
        CASE vae.posterior_type = "gaussian" ->
                /\ ret.status = "returned"
                /\ ret.q_z.family = "Normal"
                /\ ret.q_z.loc = posterior_params.mu
                /\ ret.q_z.scale.fn = "exp_half"
                /\ ret.q_z.scale.v = posterior_params.second.v
                /\ ret.q_z.scale.shape = posterior_params.second.shape
                /\ ret.p_z.family = "Normal"
                /\ ret.z.q = ret.q_z
                /\ ret.z.shape = posterior_params.mu.shape
          [] vae.posterior_type = "hyperspherical" ->
                /\ ret.status = "returned"
                /\ ret.q_z.family = "VonMisesFisher"
                /\ ret.q_z.loc = posterior_params.mu
                /\ ret.q_z.scale = posterior_params.second
                /\ ret.p_z.family = "HypersphericalUniform"
                /\ ret.p_z.dim = vae.latent_dim - 1
                /\ ret.z.q = ret.q_z
                /\ ret.z.shape = posterior_params.mu.shape
          [] OTHER ->
                /\ ret.status = "raised"
                /\ ret.exc.type = "UnboundLocalError"
                /\ ret.q_z = NoDist
                /\ ret.p_z = NoDist
                /\ ret.z = NoSample

\* C6, its case: reparameterize has returned on a hyperspherical VAE of latent
\* dimension 2, with the uniform prior on the circle.
C6_Witness ==
    /\ ret.method = "reparameterize"
    /\ ret.status = "returned"
    /\ vae.posterior_type = "hyperspherical"
    /\ vae.latent_dim = 2
    /\ ret.p_z.dim = 1

\* C7: whenever encode returns, on its own or inside forward, both elements
\* of the pair have shape [batch_size, latent_dim].
C7_EncodeShapes ==
    LET expected == <<x.shape[1], vae.latent_dim>> IN
    /\ (ret.method = "encode" /\ ret.status = "returned") =>
            /\ ret.params.mu.shape = expected
            /\ ret.params.second.shape = expected
    /\ vpc = "fwd_reparameterize" =>
            /\ posterior_params.mu.shape = expected
            /\ posterior_params.second.shape = expected

\* C8: the errors list train_and_evaluate returns has length
\* num_steps_train // steps_per_integration.
C8_ErrorsLength ==
    epc = "returned" =>
        Len(errors) = train.num_steps_train \div train.steps_per_integration

\* C9: load_place_cells returns n_times rows of n_cells columns each, and
\* n_times labels.
C9_PlaceCellsShape ==
    ppc = "returned" =>
        /\ Len(place_cells) = n_times
        /\ \A k \in 1..Len(place_cells) : Len(place_cells[k]) = n_cells
        /\ Len(labels) = n_times

\* C10: for n_cells >= 5, the row of active cell i holds a draw exactly at the
\* cells i-2..i+2 modulo n_cells, of rate 4 at i, 2 at i-1 and i+1, 1 at i-2
\* and i+2, and 0 everywhere else.
C10_CircularNeighbours ==
    n_cells >= 5 =>
        \A k \in 1..Len(place_cells) :
            LET i == (k - 1) % n_cells
                at(d) == (i + n_cells + d) % n_cells
            IN \A c \in 0..(n_cells - 1) :
                place_cells[k][c + 1] =
                    IF c = i THEN 4
                    ELSE IF c \in {at(-1), at(1)} THEN 2
                    ELSE IF c \in {at(-2), at(2)} THEN 1
                    ELSE 0

\* C11: load_images and load_projections return n_scalars * n_angles
\* observations and as many label rows; row k = i_angle * n_scalars + i_scalar
\* (angle-major) carries the angle 360 * i_angle / n_angles and the scalar
\* 1 + 0.2 * i_scalar and belongs to the image rotated by that angle and
\* blurred with that scalar; load_projections returns these labels and, for
\* every image, its sum over the last axis, of length img_size.
C11_ImagesPairedWithLabels ==
    (lpc = "returned" /\ loader \in {"load_images", "load_projections"}) =>
        /\ Len(lret.data) = n_scalars * n_angles
        /\ Len(lret.labels) = n_scalars * n_angles
        /\ \A ia \in 0..(n_angles - 1), is \in 0..(n_scalars - 1) :
            LET k == ia * n_scalars + is + 1
                angle == [num |-> 360 * ia, den |-> n_angles, unit |-> "deg"]
                tenths == 10 + 2 * is
                image == [shape |-> <<img_size, img_size>>, rotate |-> angle,
                          sigma |-> tenths]
            IN  /\ lret.labels[k] = [angles |-> angle, scalars |-> tenths]
                /\ IF loader = "load_images"
                   THEN lret.data[k] = image
                   ELSE /\ lret.data[k].shape = <<img_size>>
                        /\ lret.data[k].sum_of = image

\* load_projections has returned a dataset of several angles and scalars
C11_Witness ==
    /\ lpc = "returned"
    /\ loader = "load_projections"
    /\ n_angles >= 2
    /\ n_scalars >= 2
    /\ Len(lret.data) = n_scalars * n_angles

\* C12: load_points returns n_scalars * n_angles points of R^3 and as many
\* label rows; row k = i_angle * n_scalars + i_scalar has the scalar label
\* 1 + i_scalar and the angle label 2 * pi * i_angle / n_angles, its point
\* is scalar times the rotation of (1,1,1) about the z-axis by that angle,
\* and the point's third coordinate is its scalar label.
C12_PointsOnCone ==
    (lpc = "returned" /\ loader = "load_points") =>
        /\ Len(lret.data) = n_scalars * n_angles
        /\ Len(lret.labels) = n_scalars * n_angles
        /\ \A ia \in 0..(n_angles - 1), is \in 0..(n_scalars - 1) :
            LET k == ia * n_scalars + is + 1
                angle == [num |-> 2 * ia, den |-> n_angles, unit |-> "pi"]
                sc == 1 + is
            IN  /\ lret.labels[k] = [angles |-> angle, scalars |-> sc]
                /\ lret.data[k].at = angle
                /\ Len(lret.data[k].coords) = 3
                \* scalar * (cos - sin, sin + cos, 1)
                /\ lret.data[k].coords[1] = [c |-> sc, s |-> -sc, k |-> 0]
                /\ lret.data[k].coords[2] = [c |-> sc, s |-> sc, k |-> 0]
                /\ lret.data[k].coords[3] = [c |-> 0, s |-> 0, k |-> lret.labels[k].scalars]

\* load_points has returned a dataset of several angles and scalars
C12_Witness ==
    /\ lpc = "returned"
    /\ loader = "load_points"
    /\ n_angles >= 2
    /\ n_scalars >= 2
    /\ Len(lret.data) = n_scalars * n_angles

\* how often an entry occurs in a sequence
Count(seq, e) == Cardinality({k \in 1..Len(seq) : seq[k] = e})

\* the first position of an entry that occurs in a sequence
IndexOf(seq, e) == CHOOSE k \in 1..Len(seq) : seq[k] = e /\ \A j \in 1..(k - 1) : seq[j] # e

\* evaluate_curvature has returned
CurvatureEvaluated == pc = "wandb_finish" \/ (pc = "exited" /\ exc = NoExc)

C14_ConfigAttrsDefined ==
    (launcher_attrs = {} /\ dataset_name = <<"experimental">>) =>
        ~(pc = "exited" /\ exc.type = "AttributeError" /\ exc.at = "wandb_init")

\* train_and_evaluate is over
TrainOver == epc \in {"returned", "raised"}

\* the steps the loop has entered are starting_step, starting_step + 1, ...
\* without gap or repetition, one batch was taken per step entered, a return
\* follows exactly num_steps_train steps, and a raise leaves the loop at the
\* step that raised
StepsInOrder ==
    epc \in {"loop", "returned", "raised"} =>
        /\ starting_step = (IF train.load_pretrain THEN ckpt_step ELSE 1)
        /\ executed = [k \in 1..Len(executed) |-> starting_step + k - 1]
        /\ batches = Len(executed)
        /\ Len(executed) <= train.num_steps_train
        /\ epc = "loop" => step = starting_step + Len(executed)
        /\ epc = "returned" => Len(executed) = train.num_steps_train
        /\ epc = "raised" => /\ Len(executed) >= 1
                             /\ step = executed[Len(executed)]
                             /\ eexc # NoExc

\* C15: train_and_evaluate terminates; when it returns it has run exactly
\* num_steps_train steps, starting_step, starting_step + 1, ... in this
\* order, each once and each with one batch of train_iter (starting_step is 1
\* or the checkpoint's step); a step that raises is the last one: after a
\* return or a raise nothing of the loop runs again.
C15_TerminatesAfterNumSteps ==
    /\ []StepsInOrder
    /\ [][~TrainOver]_vars
    /\ <>TrainOver

\* a run from a checkpoint has returned after two steps
C15_Witness ==
    /\ epc = "returned"
    /\ train.load_pretrain
    /\ train.num_steps_train >= 2
    /\ Len(executed) = train.num_steps_train

\* C16: no step of train_and_evaluate fails on the learning rate: at every
\* step that was entered, the first one and those with step <= 10000 or
\* step >= 120000 included, lr is bound and the param groups hold config.lr.
C16_LrDefinedAtEveryStep ==
    /\ ~(epc = "raised" /\ eexc.type = "UnboundLocalError")
    /\ (epc \in {"loop", "returned"} /\ Len(executed) >= 1) =>
            (lr = "config.lr" /\ group_lr = "config.lr")

\* the largest element of a finite set of naturals, 0 for the empty set
Max(S) == IF S = {} THEN 0 ELSE CHOOSE m \in S : \A n \in S : n <= m

\* the step whose body ran last
LastStep == executed[Len(executed)]

\* a path-integration evaluation step inside the grid-score window
IsGridStep(s) ==
    /\ s = starting_step \/ s % train.steps_per_integration = 0
    /\ 10000 < s
    /\ s < 20000

\* the step that ran last ended inside grid_scale
DiedInGridScale == epc = "raised" /\ eexc.at = "grid_scale"

Observers == {"log_metrics", "large_logging", "path_integration"}

\* C18: whenever a step logs its metrics, runs the large-logging evaluation
\* or runs path integration, optimizer.step() and the projections of that
\* step come before it, the clamp before the normalisation, and the block
\* sees trans.b non-negative and, when positive_v is set, encoder.v
\* non-negative.
C18_ProjectionsBeforeLogging ==
    /\ \A k \in 1..Len(observed) :
            /\ observed[k].by \in Observers
            /\ observed[k].b >= 0
            /\ train.positive_v => observed[k].v >= 0
    /\ \A o \in Observers :
            Count(events, o) >= 1 =>
                /\ Count(events, o) = 1
                /\ \E k \in 1..Len(observed) : observed[k].by = o
                /\ Count(events, "optimizer.step") = 1
                /\ Count(events, "abs_b") = 1
                /\ IndexOf(events, "optimizer.step") < IndexOf(events, "abs_b")
                /\ IndexOf(events, "abs_b") < IndexOf(events, o)
                /\ train.positive_v =>
                        /\ Count(events, "clamp_v") = 1
                        /\ IndexOf(events, "optimizer.step") < IndexOf(events, "clamp_v")
                        /\ IndexOf(events, "clamp_v") < IndexOf(events, o)
                /\ (train.positive_v /\ train.norm_v) =>
                        /\ Count(events, "normalize_v") = 1
                        /\ IndexOf(events, "clamp_v") < IndexOf(events, "normalize_v")
                        /\ IndexOf(events, "normalize_v") < IndexOf(events, o)

\* a step with both projections of encoder.v ran all three blocks
C18_Witness ==
    /\ train.positive_v
    /\ train.norm_v
    /\ Len(observed) = 3
    /\ \A o \in Observers : Count(events, o) = 1

\* C19: the train metrics are flushed (averaged, logged, emptied) at exactly
\* the steps with step % steps_per_logging == 0 or step == 1; the list never
\* holds more than steps_per_logging entries, no step's metrics enter two
\* logged averages, and what is appended after the last flush is not logged.
C19_MetricsFlushedAtLoggingSteps ==
    /\ \A k \in 1..Len(executed) :
            LET s == executed[k] IN
            (\E j \in 1..Len(logged) : logged[j].step = s)
                <=> (s % train.steps_per_logging = 0 \/ s = 1)
    /\ Len(train_metrics) <= train.steps_per_logging
    /\ \A j \in 1..Len(logged) :
            /\ Len(logged[j].of) <= train.steps_per_logging
            /\ Range(logged[j].of) \cap Range(train_metrics) = {}
            /\ \A i \in 1..Len(logged) :
                    i # j => Range(logged[i].of) \cap Range(logged[j].of) = {}

\* the decoder is frozen and the object is constructed
DecoderFrozen == freeze_decoder /\ epc \notin {"off", "new"}

\* C20: with freeze_decoder set, every decoder parameter has requires_grad
\* False, the optimizer built from the parameters that require a gradient
\* holds none of them, and no train step changes the value of one.
C20_FrozenDecoderUntouched ==
    /\ [](DecoderFrozen =>
            \A p \in DecoderParams :
                /\ ~requires_grad[p]
                /\ p \notin optimizer.params)
    /\ [][DecoderFrozen =>
            \A p \in DecoderParams : param_data'[p] = param_data[p]]_vars

\* a run with a frozen decoder has taken a step that moved encoder.v
C20_Witness ==
    /\ DecoderFrozen
    /\ Len(executed) >= 1
    /\ epc = "loop"
    /\ optimizer.params = Params \ DecoderParams
    /\ param_data["encoder.v"] # InitialParams["encoder.v"]

\* the units whose 60-degree grid score the scorer put above 0.37 in the
\* grid_scale call of the step that ran last
ScoredAbove == {i \in 1..num_neurons : grid_call.score_list[i] > ScoreThreshold}

\* C21: when the step that ran last called grid_scale, then either some
\* unit's score exceeds 0.37, grid_scale returned and max_scale is the scale
\* of such a unit and no such unit has a larger scale, or no unit's score
\* exceeds 0.37, grid_scale raised and train_and_evaluate ended with that
\* exception in that step, before scale_vector was written and before
\* path_integration was called; train_and_evaluate dies in grid_scale in no
\* other case.
C21_MaxScaleOfScoredUnits ==
    epc \in {"loop", "returned", "raised"} =>
        /\ DiedInGridScale => Count(events, "grid_scale") = 1 /\ grid_call.raised
        /\ Count(events, "grid_scale") = 0 => grid_call = NoGridCall
        /\ Count(events, "grid_scale") = 1 =>
                /\ Len(grid_call.score_list) = num_neurons
                /\ Len(grid_call.scale_list) = num_neurons
                /\ ScoredAbove # {} =>
                        /\ ~grid_call.raised
                        /\ \E i \in ScoredAbove : grid_call.max_scale = grid_call.scale_list[i]
                        /\ \A i \in ScoredAbove : grid_call.scale_list[i] <= grid_call.max_scale
                        /\ ~DiedInGridScale
                        /\ scale_vector = LastStep
                /\ ScoredAbove = {} =>
                        /\ grid_call.raised
                        /\ epc = "raised"
                        /\ eexc = Exc("RuntimeError", "max", "grid_scale")
                        /\ step = LastStep
                        /\ scale_vector # LastStep
                        /\ Count(events, "write_scale_vector") = 0
                        /\ Count(events, "path_integration") = 0

\* grid_scale returned the scale of the one unit scored above 0.37, while
\* the other unit, scored 0.37, has the larger scale
C21_Witness ==
    /\ epc = "loop"
    /\ Count(events, "grid_scale") = 1
    /\ grid_call.score_list = <<ScoreThreshold + 1, ScoreThreshold>>
    /\ grid_call.scale_list = <<1, 2>>
    /\ grid_call.max_scale = 1
    /\ ~grid_call.raised
    /\ scale_vector = LastStep

====
